---- MODULE Spec2Model ----
(***************************************************************************)
(* The two explanation apps of src/App.tsx ("My Teacher app", lines        *)
(* 36-432, and "Class 5 Guru", lines 470-800) as one state machine.  The   *)
(* variable app selects the component; every handler is translated from    *)
(* the code of that component.  A handler that awaits a remote call is     *)
(* split at the await: the click issues the request, the arrival of the    *)
(* response runs the continuation.                                         *)
(***************************************************************************)
EXTENDS Integers, FiniteSets, Sequences, TLC

\* Number of submissions accepted by handleAsk in one run.
MaxAsk == 2
\* Number of narrations requested in one run (one audio source each).
MaxListen == 2
\* Number of times the camera is opened in one run (one getUserMedia call each).
MaxCamera == 2

Teacher == "Teacher"
Guru == "Guru"
Apps == {Teacher, Guru}

\* null in a field that otherwise holds an id (ids count from 1) or a photo.
Null == 0
\* Question texts, as character sequences: empty, blank, and a question.
Texts == {<< >>, <<" ">>, <<"q">>}
\* The data URL of an uploaded photo.
Photo == 1

VARIABLES
    app,              \* which component is mounted
    inputText,        \* useState inputText
    image,            \* useState image
    loading,          \* useState loading
    audioLoading,     \* useState audioLoading
    isPlaying,        \* useState isPlaying
    result,           \* useState result: Null or the id of the request that produced it
    diagram,          \* useState diagram (Guru): Null or the id of the result it was drawn for
    error,            \* useState error
    sourceRef,        \* currentSourceRef / audioSourceRef: Null or a source id
    audioContextRef,  \* audioContextRef.current has been created
    src,              \* the AudioBufferSourceNodes created so far: id -> status
    endedQ,           \* sources whose "ended" event is queued and not yet dispatched
    explReqs,         \* getTeacherExplanation calls in flight
    diagReqs,         \* getTeacherDiagram calls in flight
    speechReqs,       \* getTeacherSpeech calls in flight
    nextAsk,          \* id of the next explanation request
    nextListen,       \* id of the next speech request (and of its audio source)
    thrown,           \* a handler has thrown outside any try/catch
    lastOp,           \* the handler that ran last
    camera,           \* Guru: isCameraOpen, the video element and the media streams
    wallet,           \* Digital Painter: the wallet balance and the art request
    call,             \* a call of a service or decoding function: its arguments
    ret               \* what that call returned or threw

vars == <<app, inputText, image, loading, audioLoading, isPlaying, result,
          diagram, error, sourceRef, audioContextRef, src, endedQ, explReqs,
          diagReqs, speechReqs, nextAsk, nextListen, thrown, lastOp,
          camera, wallet, call, ret>>

\* The state of the explanation screen, and the rest.
screenVars == <<inputText, image, loading, audioLoading, isPlaying, result,
                diagram, error, sourceRef, audioContextRef, src, endedQ,
                explReqs, diagReqs, speechReqs, nextAsk, nextListen, thrown>>
cameraVars == <<camera>>
walletVars == <<wallet>>
callVars == <<call, ret>>

SourceIds == 1..MaxListen

\* The error field: null, or one of the messages shown to the user.
NoError == "null"
ValidationMsg == "validation"
ExplainMsg == "explain"
SpeechMsg == "speech"
CameraMsg == "camera"

\* The camera of Class 5 Guru: isCameraOpen, the srcObject of the <video>
\* element (the element exists only while the camera view is rendered), the
\* media streams handed out by getUserMedia, the getUserMedia calls in flight,
\* and whether the component is still mounted.
StreamIds == 1..MaxCamera
CameraInit ==
    [open |-> FALSE, srcObject |-> Null, streams |-> [i \in StreamIds |-> "none"],
     pending |-> {}, next |-> 1, mounted |-> TRUE]

\* No art request yet, no service call yet.
NoArt == [balance |-> 0, images |-> 0, pending |-> FALSE, error |-> NoError,
          arts |-> 0, calls |-> 0]
NoCall == [fn |-> "none"]
NoRet == [kind |-> "none"]

----------------------------------------------------------------------------
\* String.prototype.trim on a character sequence.

RECURSIVE TrimLeft(_)
TrimLeft(t) ==
    IF t = << >> THEN << >>
    ELSE IF Head(t) = " " THEN TrimLeft(Tail(t)) ELSE t

RECURSIVE TrimRight(_)
TrimRight(t) ==
    IF t = << >> THEN << >>
    ELSE IF t[Len(t)] = " " THEN TrimRight(SubSeq(t, 1, Len(t) - 1)) ELSE t

Trim(t) == TrimRight(TrimLeft(t))

\* JavaScript truthiness of a string: the empty string is falsy.
Truthy(t) == Len(t) > 0

\* The text handleAsk tests and sends: inputText (Teacher), inputText.trim() (Guru).
SubmittedText(a, t) == IF a = Guru THEN Trim(t) ELSE t

\* "!inputText && !image" / "!trimmedInput && !image"
ValidationFails(a, t, img) == ~Truthy(SubmittedText(a, t)) /\ img = Null

----------------------------------------------------------------------------
\* Web Audio: the sources that are audible.
ActiveSources == {s \in SourceIds : src[s] = "playing"}

\* AudioBufferSourceNode.stop(): throws InvalidStateError on a source that was
\* never started; halts a playing source and queues its "ended" event; does
\* nothing on a source that has already finished.
SourceStopThrows(m, s) == m[s] = "none"
SourceStop(m, s) == IF m[s] = "playing" THEN [m EXCEPT ![s] = "stopped"] ELSE m
SourceStopQueue(m, q, s) == IF m[s] = "playing" THEN q \cup {s} ELSE q

\* The part of the state stopTeacherSpeech reads and writes.
PlaybackState ==
    [src |-> src, endedQ |-> endedQ, ref |-> sourceRef, isPlaying |-> isPlaying,
     audioLoading |-> audioLoading, thrown |-> thrown]

\* stopTeacherSpeech.  Teacher: stop() inside try/catch, then the reference,
\* isPlaying and audioLoading are cleared.  Guru: stop() unguarded, then the
\* reference and isPlaying are cleared.
StopTeacherSpeech(a, p) ==
    IF p.ref = Null
    THEN IF a = Teacher
         THEN [p EXCEPT !.isPlaying = FALSE, !.audioLoading = FALSE]
         ELSE [p EXCEPT !.isPlaying = FALSE]
    ELSE IF a = Teacher
         THEN [p EXCEPT !.src = SourceStop(p.src, p.ref),
                        !.endedQ = SourceStopQueue(p.src, p.endedQ, p.ref),
                        !.ref = Null,
                        !.isPlaying = FALSE,
                        !.audioLoading = FALSE]
         ELSE IF SourceStopThrows(p.src, p.ref)
              THEN [p EXCEPT !.thrown = TRUE]
              ELSE [p EXCEPT !.src = SourceStop(p.src, p.ref),
                             !.endedQ = SourceStopQueue(p.src, p.endedQ, p.ref),
                             !.ref = Null,
                             !.isPlaying = FALSE]

\* Writes a playback state back into the variables.
SetPlayback(p) ==
    /\ src' = p.src
    /\ endedQ' = p.endedQ
    /\ sourceRef' = p.ref
    /\ isPlaying' = p.isPlaying
    /\ audioLoading' = p.audioLoading
    /\ thrown' = p.thrown

----------------------------------------------------------------------------
\* Single statements of the handlers, named so that each can be examined alone.

\* handleAsk, "setResult(null)" after validation.
ResultOnAsk_Kept(r) == r
ResultOnAsk(r) == Null

\* source.onended, "setIsPlaying(false)".
IsPlayingOnEnded_Kept(f) == f
IsPlayingOnEnded(f) == FALSE

\* handleAsk (Guru), inner catch: console.warn only, the error field is not written.
ErrorOnDiagramFailure_Shown(e) == ExplainMsg
ErrorOnDiagramFailure(e) == e

\* playTeacherFullNarration, "setAudioLoading(false)" in catch (Teacher) / finally (Guru).
AudioLoadingOnSpeechFailure_Kept(f) == f
AudioLoadingOnSpeechFailure(f) == FALSE

\* handleAsk, the validation branch: setError and return, before stopTeacherSpeech.
PlaybackOnRejection_Stopped(a, p) == StopTeacherSpeech(a, p)
PlaybackOnRejection(a, p) == p

\* handleAsk (Guru), "getTeacherDiagram(response.writtenStyle.topicName)": the
\* topic is taken from the response just received, not from the stored result.
DiagramTopic_Stored(response, stored) == stored
DiagramTopic(response, stored) == response

\* The explanation calls in flight after call r has failed: the catch block
\* reports the error and issues nothing.
ExplReqsOnFailure_Retried(reqs, r, n) == (reqs \ {r}) \cup {n}
ExplReqsOnFailure(reqs, r, n) == reqs \ {r}

----------------------------------------------------------------------------
Init ==
    /\ app \in Apps
    /\ inputText = << >>
    /\ image = Null
    /\ loading = FALSE
    /\ audioLoading = FALSE
    /\ isPlaying = FALSE
    /\ result = Null
    /\ diagram = Null
    /\ error = NoError
    /\ sourceRef = Null
    /\ audioContextRef = FALSE
    /\ src = [s \in SourceIds |-> "none"]
    /\ endedQ = {}
    /\ explReqs = {}
    /\ diagReqs = {}
    /\ speechReqs = {}
    /\ nextAsk = 1
    /\ nextListen = 1
    /\ thrown = FALSE
    /\ lastOp = "init"
    /\ camera = CameraInit
    /\ wallet = NoArt
    /\ call = NoCall
    /\ ret = NoRet

\* textarea onChange
SetInputText ==
    /\ UNCHANGED <<cameraVars, walletVars, callVars>>
    /\ \E t \in Texts : t # inputText /\ inputText' = t
    /\ lastOp' = "setInputText"
    /\ UNCHANGED <<app, image, loading, audioLoading, isPlaying, result, diagram,
                   error, sourceRef, audioContextRef, src, endedQ, explReqs,
                   diagReqs, speechReqs, nextAsk, nextListen, thrown>>

\* handleImageChange (a file was chosen and read) / the remove-photo button
SetImage ==
    /\ UNCHANGED <<cameraVars, walletVars, callVars>>
    /\ image' = IF image = Null THEN Photo ELSE Null
    /\ lastOp' = "setImage"
    /\ UNCHANGED <<app, inputText, loading, audioLoading, isPlaying, result,
                   diagram, error, sourceRef, audioContextRef, src, endedQ,
                   explReqs, diagReqs, speechReqs, nextAsk, nextListen, thrown>>

\* handleAsk up to its first await.  The Ask button is disabled while loading.
HandleAsk ==
    /\ UNCHANGED <<cameraVars, walletVars, callVars>>
    /\ ~loading
    /\ IF ValidationFails(app, inputText, image)
       THEN /\ error' = ValidationMsg
            /\ lastOp' = "askRejected"
            /\ SetPlayback(PlaybackOnRejection(app, PlaybackState))
            /\ UNCHANGED <<app, inputText, image, loading, result, diagram,
                           audioContextRef, explReqs, diagReqs, speechReqs,
                           nextAsk, nextListen>>
       ELSE /\ nextAsk <= MaxAsk
            /\ LET p == StopTeacherSpeech(app, PlaybackState) IN
               IF p.thrown
               THEN /\ thrown' = TRUE
                    /\ lastOp' = "askThrew"
                    /\ UNCHANGED <<app, inputText, image, loading, audioLoading,
                                   isPlaying, result, diagram, error, sourceRef,
                                   audioContextRef, src, endedQ, explReqs,
                                   diagReqs, speechReqs, nextAsk, nextListen>>
               ELSE /\ SetPlayback(p)
                    /\ loading' = TRUE
                    /\ error' = NoError
                    /\ result' = ResultOnAsk(result)
                    /\ diagram' = Null
                    /\ explReqs' = explReqs \cup {nextAsk}
                    /\ nextAsk' = nextAsk + 1
                    /\ lastOp' = "askAccepted"
                    /\ UNCHANGED <<app, inputText, image, audioContextRef,
                                   diagReqs, speechReqs, nextListen>>

\* The continuation of handleAsk when getTeacherExplanation settles.
ExplanationResponse ==
    /\ UNCHANGED <<cameraVars, walletVars, callVars>>
    /\ \E r \in explReqs, ok \in BOOLEAN :
       /\ IF ok
          THEN /\ explReqs' = explReqs \ {r}
               /\ result' = r
               /\ error' = error
               /\ IF app = Guru
                  THEN diagReqs' = diagReqs \cup {DiagramTopic(r, result)} /\ loading' = loading
                  ELSE diagReqs' = diagReqs /\ loading' = FALSE
               /\ lastOp' = "explanationOk"
          ELSE /\ explReqs' = ExplReqsOnFailure(explReqs, r, nextAsk)
               /\ error' = ExplainMsg
               /\ loading' = FALSE
               /\ lastOp' = "explanationFailed"
               /\ UNCHANGED <<result, diagReqs>>
       /\ UNCHANGED <<app, inputText, image, audioLoading, isPlaying, diagram,
                      sourceRef, audioContextRef, src, endedQ, speechReqs,
                      nextAsk, nextListen, thrown>>

\* The continuation of handleAsk (Guru) when getTeacherDiagram settles.
DiagramResponse ==
    /\ UNCHANGED <<cameraVars, walletVars, callVars>>
    /\ \E r \in diagReqs, ok \in BOOLEAN :
       /\ diagReqs' = diagReqs \ {r}
       /\ diagram' = IF ok THEN r ELSE diagram
       /\ error' = IF ok THEN error ELSE ErrorOnDiagramFailure(error)
       /\ loading' = FALSE
       /\ lastOp' = IF ok THEN "diagramOk" ELSE "diagramFailed"
       /\ UNCHANGED <<app, inputText, image, audioLoading, isPlaying, result,
                      sourceRef, audioContextRef, src, endedQ, explReqs,
                      speechReqs, nextAsk, nextListen, thrown>>

\* playTeacherFullNarration up to its first await.  The Listen button is shown
\* with a result on screen and nothing playing, and is disabled while
\* audioLoading; the handler returns at once on "!result || audioLoading ||
\* isPlaying" (Teacher) or "!result || isPlaying" (Guru).
ListenShown == result # Null /\ ~isPlaying /\ ~audioLoading
ListenReturnsEarly ==
    IF app = Teacher THEN result = Null \/ audioLoading \/ isPlaying
                     ELSE result = Null \/ isPlaying

PlayTeacherFullNarration ==
    /\ UNCHANGED <<cameraVars, walletVars, callVars>>
    /\ ListenShown
    /\ ~ListenReturnsEarly
    /\ nextListen <= MaxListen
    /\ audioLoading' = TRUE
    /\ error' = IF app = Teacher THEN NoError ELSE error
    /\ speechReqs' = speechReqs \cup {[id |-> nextListen, res |-> result]}
    /\ nextListen' = nextListen + 1
    /\ lastOp' = "listen"
    /\ UNCHANGED <<app, inputText, image, loading, isPlaying, result, diagram,
                   sourceRef, audioContextRef, src, endedQ, explReqs, diagReqs,
                   nextAsk, thrown>>

\* How a speech call can end: audio that decodes, a failure of the call (or
\* no audio in the response), or audio that decodeBase64 / decodeAudioData
\* rejects after the AudioContext has been created.
SpeechOutcomes == {"ok", "callFailed", "decodeFailed"}

\* The continuation of playTeacherFullNarration when getTeacherSpeech settles:
\* create the context, decode, create the source, keep it in the reference,
\* start it; the catch block reports the error.
SpeechResponse ==
    /\ UNCHANGED <<cameraVars, walletVars, callVars>>
    /\ \E r \in speechReqs, o \in SpeechOutcomes :
       /\ speechReqs' = speechReqs \ {r}
       /\ audioContextRef' = IF o = "callFailed" THEN audioContextRef ELSE TRUE
       /\ IF o = "ok"
          THEN /\ src' = [src EXCEPT ![r.id] = "playing"]
               /\ sourceRef' = r.id
               /\ isPlaying' = TRUE
               /\ audioLoading' = FALSE
               /\ error' = error
               /\ lastOp' = "speechOk"
          ELSE /\ error' = SpeechMsg
               /\ audioLoading' = AudioLoadingOnSpeechFailure(audioLoading)
               /\ isPlaying' = IF app = Teacher THEN FALSE ELSE isPlaying
               /\ lastOp' = "speechFailed"
               /\ UNCHANGED <<src, sourceRef>>
       /\ UNCHANGED <<app, inputText, image, loading, result, diagram, endedQ,
                      explReqs, diagReqs, nextAsk, nextListen, thrown>>

\* The Stop button: shown instead of Listen while isPlaying (Guru: the same
\* button, so it is disabled while audioLoading).
StopShown == result # Null /\ isPlaying /\ (app = Guru => ~audioLoading)

StopClick ==
    /\ UNCHANGED <<cameraVars, walletVars, callVars>>
    /\ StopShown
    /\ SetPlayback(StopTeacherSpeech(app, PlaybackState))
    /\ lastOp' = "stop"
    /\ UNCHANGED <<app, inputText, image, loading, result, diagram, error,
                   audioContextRef, explReqs, diagReqs, speechReqs, nextAsk,
                   nextListen>>

\* A playing source reaches the end of its buffer; its "ended" event is queued.
SourceEnds ==
    /\ UNCHANGED <<cameraVars, walletVars, callVars>>
    /\ \E s \in ActiveSources :
       /\ src' = [src EXCEPT ![s] = "ended"]
       /\ endedQ' = endedQ \cup {s}
       /\ lastOp' = "sourceEnds"
       /\ UNCHANGED <<app, inputText, image, loading, audioLoading, isPlaying,
                      result, diagram, error, sourceRef, audioContextRef,
                      explReqs, diagReqs, speechReqs, nextAsk, nextListen, thrown>>

\* source.onended.  Teacher clears isPlaying, audioLoading and the reference;
\* Guru clears isPlaying.
OnEnded ==
    /\ UNCHANGED <<cameraVars, walletVars, callVars>>
    /\ \E s \in endedQ :
       /\ endedQ' = endedQ \ {s}
       /\ isPlaying' = IsPlayingOnEnded(isPlaying)
       /\ audioLoading' = IF app = Teacher THEN FALSE ELSE audioLoading
       /\ sourceRef' = IF app = Teacher THEN Null ELSE sourceRef
       /\ lastOp' = "onended"
       /\ UNCHANGED <<app, inputText, image, loading, result, diagram, error,
                      audioContextRef, src, explReqs, diagReqs, speechReqs,
                      nextAsk, nextListen, thrown>>

\* The "teach me more" button under a result.  Teacher: stopTeacherSpeech, then
\* the inputs and the result are cleared.  Guru: result, image, diagram and
\* text are cleared.
ResetClick ==
    /\ UNCHANGED <<cameraVars, walletVars, callVars>>
    /\ result # Null
    /\ IF app = Teacher
       THEN SetPlayback(StopTeacherSpeech(app, PlaybackState))
       ELSE UNCHANGED <<src, endedQ, sourceRef, isPlaying, audioLoading, thrown>>
    /\ inputText' = << >>
    /\ image' = Null
    /\ result' = Null
    /\ diagram' = Null
    /\ lastOp' = "reset"
    /\ UNCHANGED <<app, loading, error, audioContextRef, explReqs, diagReqs,
                   speechReqs, nextAsk, nextListen>>

Next ==
    \/ SetInputText
    \/ SetImage
    \/ HandleAsk
    \/ ExplanationResponse
    \/ DiagramResponse
    \/ PlayTeacherFullNarration
    \/ SpeechResponse
    \/ StopClick
    \/ SourceEnds
    \/ OnEnded
    \/ ResetClick

Spec == Init /\ [][Next]_vars

----------------------------------------------------------------------------
\* The camera of Class 5 Guru (startCamera, stopCamera, capturePhoto).

\* videoRef.current: the <video> element is rendered inside "isCameraOpen &&".
VideoElement(c) == c.open /\ c.mounted

\* The streams whose tracks are live.
LiveStreams(c) == {i \in StreamIds : c.streams[i] = "live"}

\* stopCamera: stops the tracks of the stream in videoRef.current.srcObject, if
\* there is one, and closes the camera view.
StopCamera(c) ==
    [c EXCEPT !.streams = IF VideoElement(c) /\ c.srcObject # Null
                          THEN [c.streams EXCEPT ![c.srcObject] = "stopped"]
                          ELSE c.streams,
              !.open = FALSE,
              !.srcObject = Null]

\* startCamera up to its await: the "Take Photo" button lies under the camera
\* view, so it can be clicked only while the view is closed.
StartCameraClick ==
    /\ app = Guru
    /\ camera.mounted /\ ~camera.open
    /\ camera.next <= MaxCamera
    /\ error' = NoError
    /\ camera' = [camera EXCEPT !.open = TRUE,
                                !.srcObject = Null,
                                !.pending = @ \cup {camera.next},
                                !.next = @ + 1]
    /\ lastOp' = "startCamera"
    /\ UNCHANGED <<app, inputText, image, loading, audioLoading, isPlaying,
                   result, diagram, sourceRef, audioContextRef, src, endedQ,
                   explReqs, diagReqs, speechReqs, nextAsk, nextListen, thrown>>
    /\ UNCHANGED <<walletVars, callVars>>

\* The continuation of startCamera when getUserMedia settles: the stream goes
\* into the <video> element if there is one; the catch block reports the
\* error and closes the view.  State updates of an unmounted component are
\* dropped.
GetUserMediaSettles ==
    /\ app = Guru
    /\ \E i \in camera.pending, ok \in BOOLEAN :
          IF ok
          THEN /\ camera' = [camera EXCEPT
                                !.pending = @ \ {i},
                                !.streams[i] = "live",
                                !.srcObject = IF VideoElement(camera) THEN i ELSE @]
               /\ error' = error
               /\ lastOp' = "cameraGranted"
          ELSE /\ camera' = [camera EXCEPT !.pending = @ \ {i},
                                           !.open = FALSE,
                                           !.srcObject = Null]
               /\ error' = IF camera.mounted THEN CameraMsg ELSE error
               /\ lastOp' = "cameraDenied"
    /\ UNCHANGED <<app, inputText, image, loading, audioLoading, isPlaying,
                   result, diagram, sourceRef, audioContextRef, src, endedQ,
                   explReqs, diagReqs, speechReqs, nextAsk, nextListen, thrown>>
    /\ UNCHANGED <<walletVars, callVars>>

\* The close button of the camera view.
StopCameraClick ==
    /\ app = Guru
    /\ VideoElement(camera)
    /\ camera' = StopCamera(camera)
    /\ lastOp' = "stopCamera"
    /\ UNCHANGED <<app, screenVars, walletVars, callVars>>

\* capturePhoto: draws the video frame, stores it as the image, then stopCamera.
CapturePhoto ==
    /\ app = Guru
    /\ VideoElement(camera)
    /\ image' = Photo
    /\ camera' = StopCamera(camera)
    /\ lastOp' = "capturePhoto"
    /\ UNCHANGED <<app, inputText, loading, audioLoading, isPlaying,
                   result, diagram, error, sourceRef, audioContextRef, src, endedQ,
                   explReqs, diagReqs, speechReqs, nextAsk, nextListen, thrown>>
    /\ UNCHANGED <<walletVars, callVars>>

\* The component is torn down; it registers no cleanup.
Unmount ==
    /\ app = Guru
    /\ camera.mounted
    /\ camera' = [camera EXCEPT !.mounted = FALSE, !.open = FALSE, !.srcObject = Null]
    /\ lastOp' = "unmount"
    /\ UNCHANGED <<app, screenVars, walletVars, callVars>>

\* The photo and text controls under the camera view, usable while it is closed.
PhotoControl == camera.mounted /\ ~camera.open /\ SetImage
TextControl == camera.mounted /\ ~camera.open /\ SetInputText

CameraNext ==
    \/ StartCameraClick
    \/ GetUserMediaSettles
    \/ StopCameraClick
    \/ CapturePhoto
    \/ Unmount
    \/ PhotoControl
    \/ TextControl

GuruInit == Init /\ app = Guru
CameraSpec == GuruInit /\ [][CameraNext]_vars

----------------------------------------------------------------------------
\* The service functions: src/services/aiService.ts (imported by Class 5 Guru)
\* and the service module imported by My Teacher app (getTeacherExplanation and
\* getTeacherSpeech only).  A call is the function, the module, the API_KEY of
\* the environment and the response the backend gives.

AiService == "aiService"
GeminiService == "geminiService"

\* process.env.API_KEY: undefined or a key.
KeyAbsent == "undefined"
KeyValue == "key"
Keys == {KeyAbsent, KeyValue}

\* The apiKey option passed to GoogleGenAI: "process.env.API_KEY || ''"
\* (aiService), "process.env.API_KEY" (the other module).
Credential(svc, key) == IF svc = AiService /\ key = KeyAbsent THEN "" ELSE key

\* The fields the response schema requires.
WrittenFields == {"topicName", "simpleMeaning", "stepByStep", "easyExample", "shortSummary"}

\* A JSON object by the fields it has.
JsonObjects ==
    {o \in [spokenStyle : BOOLEAN, writtenStyle : BOOLEAN, written : SUBSET WrittenFields] :
        ~o.writtenStyle => o.written = {}}
EmptyObject == [spokenStyle |-> FALSE, writtenStyle |-> FALSE, written |-> {}]

\* response.text: undefined, the empty string, text that is not JSON, or JSON.
ResponseTexts ==
    {[form |-> f, obj |-> EmptyObject] : f \in {"undefined", "empty", "garbage"}}
    \cup {[form |-> "json", obj |-> o] : o \in JsonObjects}

\* What a call gives back.
Returned(v, cred) == [kind |-> "returned", value |-> v, error |-> "", sent |-> TRUE, credential |-> cred]
Threw(e, sent, cred) == [kind |-> "threw", value |-> "", error |-> e, sent |-> sent, credential |-> cred]

\* JSON.parse(response.text) (aiService) and JSON.parse(response.text || "{}").
\* JSON.parse throws SyntaxError on undefined, on the empty string and on text
\* that is not JSON; what it parses is returned as it is.
JsonParse(t, cred) ==
    IF t.form = "json" THEN Returned(t.obj, cred) ELSE Threw("SyntaxError", TRUE, cred)
OrEmptyObject(t) ==
    IF t.form \in {"undefined", "empty"} THEN [form |-> "json", obj |-> EmptyObject] ELSE t
ParseExplanation(svc, t, cred) ==
    IF svc = AiService THEN JsonParse(t, cred) ELSE JsonParse(OrEmptyObject(t), cred)

\* A part of a candidate's content: text, inlineData without data, or
\* inlineData with a base64 payload.
MaxParts == 2
TextPart == [inlineData |-> FALSE, data |-> ""]
BareInline == [inlineData |-> TRUE, data |-> ""]
Payloads == {"AAAA", "BBBB"}
PartKinds == {TextPart, BareInline} \cup {[inlineData |-> TRUE, data |-> d] : d \in Payloads}
PartLists == UNION {[1..n -> PartKinds] : n \in 0..MaxParts}

\* response.candidates?.[0]?.content?.parts: missing, or a list of parts.
Contents == {[parts |-> FALSE, list |-> << >>]} \cup {[parts |-> TRUE, list |-> l] : l \in PartLists}

\* p.inlineData && p.inlineData.data
HasData(p) == p.inlineData /\ p.data # ""

\* getTeacherSpeech.  aiService reads parts?.[0]?.inlineData?.data; the other
\* module throws when there are no parts, else takes parts.find(p =>
\* p.inlineData && p.inlineData.data).
RECURSIVE Find(_, _)
Find(l, i) ==
    IF i > Len(l) THEN 0
    ELSE IF HasData(l[i]) THEN i ELSE Find(l, i + 1)

ExtractSpeech(svc, c, cred) ==
    IF svc = AiService
    THEN IF c.parts /\ Len(c.list) > 0 /\ HasData(c.list[1])
         THEN Returned(c.list[1].data, cred)
         ELSE Threw("Could not generate teacher's voice.", TRUE, cred)
    ELSE IF ~c.parts
         THEN Threw("No response received.", TRUE, cred)
         ELSE IF Find(c.list, 1) = 0
              THEN Threw("Audio data was missing.", TRUE, cred)
              ELSE Returned(c.list[Find(c.list, 1)].data, cred)

\* getTeacherDiagram: iterates response.candidates[0].content.parts (TypeError
\* when missing), takes the first part that has inlineData, and puts its data
\* after the data-URL prefix; a missing data prints as "undefined".
DataUrlPrefix == "data:image/png;base64,"
TemplateText(p) == IF p.data = "" THEN "undefined" ELSE p.data

RECURSIVE FindInline(_, _)
FindInline(l, i) ==
    IF i > Len(l) THEN 0
    ELSE IF l[i].inlineData THEN i ELSE FindInline(l, i + 1)

ExtractDiagram(c, cred) ==
    IF ~c.parts
    THEN Threw("TypeError", TRUE, cred)
    ELSE IF FindInline(c.list, 1) = 0
         THEN Threw("Could not create diagram.", TRUE, cred)
         ELSE Returned(<<DataUrlPrefix, TemplateText(c.list[FindInline(c.list, 1)])>>, cred)

\* The calls: a backend that is handed no key rejects the request.
ExplanationCalls ==
    {[fn |-> "explanation", svc |-> v, key |-> k, ok |-> ok, body |-> t] :
        v \in {AiService, GeminiService}, k \in Keys, ok \in BOOLEAN, t \in ResponseTexts}
SpeechCalls ==
    {[fn |-> "speech", svc |-> v, key |-> k, ok |-> ok, body |-> c] :
        v \in {AiService, GeminiService}, k \in Keys, ok \in BOOLEAN, c \in Contents}
DiagramCalls ==
    {[fn |-> "diagram", svc |-> AiService, key |-> k, ok |-> ok, body |-> c] :
        k \in Keys, ok \in BOOLEAN, c \in Contents}
ServiceCalls ==
    {c \in ExplanationCalls \cup SpeechCalls \cup DiagramCalls : c.key = KeyAbsent => ~c.ok}

\* new GoogleGenAI({apiKey}) with an undefined key may throw or not, as the
\* library decides; with a string, empty or not, the request is sent.
ConstructorMayThrow(cred) == IF cred = KeyAbsent THEN BOOLEAN ELSE {FALSE}

Settle(c, extracted, ctorThrows) ==
    LET cred == Credential(c.svc, c.key) IN
    IF ctorThrows THEN Threw("ApiKeyError", FALSE, cred)
    ELSE IF ~c.ok THEN Threw("RemoteError", TRUE, cred)
    ELSE extracted

GetTeacherExplanation ==
    /\ call.fn = "explanation" /\ ret = NoRet
    /\ \E t \in ConstructorMayThrow(Credential(call.svc, call.key)) :
          ret' = Settle(call, ParseExplanation(call.svc, call.body,
                                               Credential(call.svc, call.key)), t)
    /\ lastOp' = "getTeacherExplanation"
    /\ UNCHANGED <<app, screenVars, cameraVars, walletVars, call>>

GetTeacherSpeech ==
    /\ call.fn = "speech" /\ ret = NoRet
    /\ \E t \in ConstructorMayThrow(Credential(call.svc, call.key)) :
          ret' = Settle(call, ExtractSpeech(call.svc, call.body,
                                            Credential(call.svc, call.key)), t)
    /\ lastOp' = "getTeacherSpeech"
    /\ UNCHANGED <<app, screenVars, cameraVars, walletVars, call>>

GetTeacherDiagram ==
    /\ call.fn = "diagram" /\ ret = NoRet
    /\ ret' = Settle(call, ExtractDiagram(call.body, Credential(call.svc, call.key)), FALSE)
    /\ lastOp' = "getTeacherDiagram"
    /\ UNCHANGED <<app, screenVars, cameraVars, walletVars, call>>

\* The screen before anything has happened: the values of useState / useRef.
ScreenIdle ==
    /\ inputText = << >> /\ image = Null /\ loading = FALSE /\ audioLoading = FALSE
    /\ isPlaying = FALSE /\ result = Null /\ diagram = Null /\ error = NoError
    /\ sourceRef = Null /\ audioContextRef = FALSE
    /\ src = [s \in SourceIds |-> "none"] /\ endedQ = {}
    /\ explReqs = {} /\ diagReqs = {} /\ speechReqs = {}
    /\ nextAsk = 1 /\ nextListen = 1 /\ thrown = FALSE /\ lastOp = "init"

\* Each module is the one its app imports.
ServiceInit ==
    /\ app \in Apps
    /\ ScreenIdle
    /\ camera = CameraInit /\ wallet = NoArt
    /\ call \in ServiceCalls
    /\ call.svc = (IF app = Guru THEN AiService ELSE GeminiService)
    /\ ret = NoRet

ServiceNext ==
    \/ GetTeacherExplanation
    \/ GetTeacherSpeech
    \/ GetTeacherDiagram

ServiceSpec == ServiceInit /\ [][ServiceNext]_vars

----------------------------------------------------------------------------
\* decodeAudioData (Teacher: lines 17-34, Guru: lines 451-468), called on the
\* bytes decodeBase64 produced, which fill their ArrayBuffer from offset 0.

MaxBytes == 4
ByteValues == {0, 1, 128, 255}
ByteArrays == UNION {[1..n -> ByteValues] : n \in 1..MaxBytes}
ChannelCounts == {1, 2}

\* The Int16Array view.  Teacher: new Int16Array(buffer, byteOffset,
\* byteLength / 2), whose length argument is truncated to an integer.  Guru:
\* new Int16Array(buffer), a RangeError when the byte length is odd.
Int16ArrayThrows(a, bytes) == a = Guru /\ Len(bytes) % 2 # 0
Int16Length(bytes) == Len(bytes) \div 2

\* Element j (from 0) of the view: two bytes, low byte first, two's complement.
Int16At_Unsigned(bytes, j) == bytes[2 * j + 1] + 256 * bytes[2 * j + 2]
Int16At(bytes, j) ==
    ((bytes[2 * j + 1] + 256 * bytes[2 * j + 2] + 32768) % 65536) - 32768

\* ctx.createBuffer(numChannels, frameCount, sampleRate): frameCount is
\* converted to an unsigned long (truncated); a length of 0 is a
\* NotSupportedError.
BufferLength(n, c) == n \div c

\* The decoded buffer: per channel the samples, each written as its
\* numerator over 32768 ("/ 32768.0").
DecodeAudioData(a, bytes, c) ==
    IF Int16ArrayThrows(a, bytes) THEN Threw("RangeError", FALSE, "")
    ELSE LET n == Int16Length(bytes)
             frames == BufferLength(n, c)
         IN IF frames = 0 THEN Threw("NotSupportedError", FALSE, "")
            ELSE Returned([frames |-> frames,
                           channels |-> [k \in 0..(c - 1) |->
                                           [i \in 0..(frames - 1) |->
                                              Int16At(bytes, i * c + k)]]], "")

DecodeCalls ==
    {[fn |-> "decode", bytes |-> b, numChannels |-> c] : b \in ByteArrays, c \in ChannelCounts}

DecodeAudio ==
    /\ call.fn = "decode" /\ ret = NoRet
    /\ ret' = DecodeAudioData(app, call.bytes, call.numChannels)
    /\ lastOp' = "decodeAudioData"
    /\ UNCHANGED <<app, screenVars, cameraVars, walletVars, call>>

DecodeInit ==
    /\ app \in Apps
    /\ ScreenIdle
    /\ camera = CameraInit /\ wallet = NoArt
    /\ call \in DecodeCalls
    /\ ret = NoRet

DecodeNext == DecodeAudio

DecodeSpec == DecodeInit /\ [][DecodeNext]_vars

----------------------------------------------------------------------------
\* The Digital Painter's wallet.  Only the types of the art screen are in the
\* sources (src/types.ts); the wallet follows the specification, sections 3,
\* 5 and 7: the balance must be at least the unit price before a request is
\* issued, a request below it is rejected with InsufficientBalanceError, the
\* triggering control is disabled while a request is outstanding, and the
\* balance is decremented once per successful result.

MaxBalance == 5
MaxArt == 3
MaxImages == 2
UnitPrice == 2
Painter == "Painter"
InsufficientBalanceError == "InsufficientBalanceError"
ValidationError == "ValidationError"
RemoteServiceError == "RemoteServiceError"

\* The balance after the debit for one result.
ArtDebit_Twice(b) == b - 2 * UnitPrice
ArtDebit(b) == b - UnitPrice

AddImage ==
    /\ wallet.images < MaxImages
    /\ wallet' = [wallet EXCEPT !.images = @ + 1]
    /\ lastOp' = "addImage"
    /\ UNCHANGED <<app, screenVars, cameraVars, callVars>>

\* The generate control: disabled while a request is outstanding.
ArtControl == ~wallet.pending /\ wallet.calls < MaxArt

ArtRejected ==
    /\ ArtControl
    /\ wallet.balance < UnitPrice
    /\ wallet' = [wallet EXCEPT !.error = InsufficientBalanceError]
    /\ lastOp' = "artRejected"
    /\ UNCHANGED <<app, screenVars, cameraVars, callVars>>

ArtInvalid ==
    /\ ArtControl
    /\ wallet.balance >= UnitPrice
    /\ wallet.images = 0
    /\ wallet' = [wallet EXCEPT !.error = ValidationError]
    /\ lastOp' = "artInvalid"
    /\ UNCHANGED <<app, screenVars, cameraVars, callVars>>

ArtRequested ==
    /\ ArtControl
    /\ wallet.balance >= UnitPrice
    /\ wallet.images > 0
    /\ wallet' = [wallet EXCEPT !.pending = TRUE, !.error = NoError, !.calls = @ + 1]
    /\ lastOp' = "artRequested"
    /\ UNCHANGED <<app, screenVars, cameraVars, callVars>>

ArtSucceeded ==
    /\ wallet.pending
    /\ wallet' = [wallet EXCEPT !.pending = FALSE, !.arts = @ + 1,
                                !.balance = ArtDebit(@)]
    /\ lastOp' = "artSucceeded"
    /\ UNCHANGED <<app, screenVars, cameraVars, callVars>>

ArtFailed ==
    /\ wallet.pending
    /\ wallet' = [wallet EXCEPT !.pending = FALSE, !.error = RemoteServiceError]
    /\ lastOp' = "artFailed"
    /\ UNCHANGED <<app, screenVars, cameraVars, callVars>>

WalletInit ==
    /\ app = Painter
    /\ ScreenIdle
    /\ camera = CameraInit
    /\ wallet \in {[NoArt EXCEPT !.balance = b] : b \in 0..MaxBalance}
    /\ call = NoCall /\ ret = NoRet

WalletNext ==
    \/ AddImage
    \/ ArtRejected
    \/ ArtInvalid
    \/ ArtRequested
    \/ ArtSucceeded
    \/ ArtFailed

WalletSpec == WalletInit /\ [][WalletNext]_vars

----------------------------------------------------------------------------
\* Steps, recognised by the handler that ran.
AskSteps == {"askAccepted", "askRejected", "askThrew"}

\* A submission has a question text when the text is not blank.
HasQuestionText(t) == Truthy(Trim(t))

\* C1: in both handlers an explanation request is sent if and only if the
\* submission has a question text or an image; an empty submission sets the
\* validation message, issues no call and does not throw; a submission with a
\* question text and no image is accepted and issues the call.
C1_AskSentIffTextOrImage ==
    [][lastOp' \in AskSteps =>
         /\ (lastOp' = "askAccepted") <=> (HasQuestionText(inputText) \/ image # Null)
         /\ lastOp' = "askAccepted" => explReqs' = explReqs \cup {nextAsk}
         /\ lastOp' # "askAccepted" =>
               error' = ValidationMsg /\ explReqs' = explReqs /\ ~thrown']_vars

\* C2: at most one audio source that has been started and has neither ended
\* nor been stopped exists, in every reachable state of either app.
C2_PlaybackSingleton == Cardinality(ActiveSources) <= 1

\* C3: whenever playTeacherFullNarration starts a new source, every earlier
\* source has been stopped: right after the start exactly one source is active.
C3_StartStopsEarlier ==
    [][\A s \in SourceIds :
          (src[s] = "none" /\ src'[s] = "playing") => ActiveSources' = {s}]_vars

\* C4: stopTeacherSpeech raises no error, calling it twice leaves the state
\* that one call leaves, and calling it when no source is playing changes no
\* state.
C4_StopIdempotentNoOp ==
    LET p == PlaybackState
        q == StopTeacherSpeech(app, p)
    IN /\ ~q.thrown
       /\ StopTeacherSpeech(app, q) = q
       /\ (ActiveSources = {} => q = p)

\* C5: when the "ended" event of a source that reached its natural end is
\* handled, isPlaying is false afterwards, whatever happened in between and
\* without any stop call.
C5_NaturalEndClearsIsPlaying ==
    [][\A s \in endedQ :
          (src[s] = "ended" /\ s \notin endedQ') => isPlaying' = FALSE]_vars

C5_Witness ==
    /\ lastOp = "onended"
    /\ \E s \in SourceIds : src[s] = "ended" /\ s \notin endedQ
    /\ ~isPlaying

\* C6: while an explanation request is outstanding the stored result is
\* absent, it is absent after the request has failed, and a stored result is
\* always that of the newest request.
C6_ResultDiscardedOnAsk ==
    /\ explReqs # {} => result = Null
    /\ lastOp \in {"askAccepted", "explanationFailed"} => result = Null
    /\ result # Null => result = nextAsk - 1

C6_Witness ==
    /\ lastOp = "askAccepted"
    /\ nextAsk = 3
    /\ explReqs = {2}
    /\ result = Null

\* C7: in Class 5 Guru a failed diagram call leaves the stored result and the
\* error field as they are, shows no explanation error, leaves the diagram
\* absent and ends with loading false.
C7_DiagramFailureSwallowed ==
    [][lastOp' = "diagramFailed" =>
         /\ app = Guru
         /\ result' = result
         /\ error' = error
         /\ error' # ExplainMsg
         /\ diagram' = Null
         /\ loading' = FALSE]_vars

C7_Witness ==
    /\ lastOp = "diagramFailed"
    /\ result # Null
    /\ error = NoError
    /\ diagram = Null
    /\ ~loading

\* C8: after a failed explanation, diagram or speech call the flag it had set
\* is false, and loading / audioLoading is never true without a call of its
\* kind outstanding.
C8_LoadingResetOnError ==
    /\ lastOp \in {"explanationFailed", "diagramFailed"} => ~loading
    /\ lastOp = "speechFailed" => ~audioLoading
    /\ loading => explReqs \cup diagReqs # {}
    /\ audioLoading => speechReqs # {}

C8_Witness ==
    /\ lastOp = "speechFailed"
    /\ nextListen = 2
    /\ audioContextRef
    /\ ~audioLoading
    /\ error = SpeechMsg

\* C9: at most one explanation request and at most one speech request are
\* outstanding at any time.
C9_SingleOutstandingPerKind ==
    /\ Cardinality(explReqs) <= 1
    /\ Cardinality(speechReqs) <= 1

\* C10: an accepted handleAsk issues exactly one explanation call, a narration
\* start exactly one speech call; a failed call sets its error message and
\* issues nothing; no other step but the diagram request after a stored
\* explanation issues a call.
C10_NoRetries ==
    [][/\ lastOp' = "askAccepted" =>
             /\ Cardinality(explReqs') = Cardinality(explReqs) + 1
             /\ speechReqs' = speechReqs /\ diagReqs' = diagReqs
       /\ lastOp' = "listen" =>
             /\ Cardinality(speechReqs') = Cardinality(speechReqs) + 1
             /\ explReqs' = explReqs /\ diagReqs' = diagReqs
       /\ lastOp' = "explanationFailed" =>
             /\ error' = ExplainMsg
             /\ Cardinality(explReqs') = Cardinality(explReqs) - 1
             /\ explReqs' \subseteq explReqs
             /\ speechReqs' = speechReqs /\ diagReqs' = diagReqs
       /\ lastOp' = "speechFailed" =>
             /\ error' = SpeechMsg
             /\ Cardinality(speechReqs') = Cardinality(speechReqs) - 1
             /\ speechReqs' \subseteq speechReqs
             /\ explReqs' = explReqs /\ diagReqs' = diagReqs
       /\ lastOp' \notin {"askAccepted", "listen", "explanationOk"} =>
             /\ explReqs' \subseteq explReqs
             /\ speechReqs' \subseteq speechReqs
             /\ diagReqs' \subseteq diagReqs]_vars

C10_Witness ==
    /\ lastOp = "explanationFailed"
    /\ error = ExplainMsg
    /\ explReqs = {}
    /\ ~loading
\* C11: the camera is released on every exit path: after capturePhoto,
\* stopCamera and teardown, and whenever the camera view is closed, no track
\* of any stream acquired by startCamera is live.
C11_CameraReleased ==
    /\ lastOp \in {"capturePhoto", "stopCamera", "unmount"} => LiveStreams(camera) = {}
    /\ ~VideoElement(camera) => LiveStreams(camera) = {}
\* An object has every field of an explanation.
Complete(o) == o.spokenStyle /\ o.writtenStyle /\ o.written = WrittenFields

\* C12: for every backend response getTeacherExplanation either returns an
\* object with spokenStyle and all five writtenStyle fields or fails: a
\* response whose text is empty, is not JSON or lacks a required field raises
\* an error and never reaches the caller as a result.
C12_ExplanationCompleteOrError ==
    (call.fn = "explanation" /\ ret # NoRet) =>
       /\ ret.kind = "returned" => Complete(ret.value)
       /\ (call.ok /\ (call.body.form # "json" \/ ~Complete(call.body.obj))) =>
             ret.kind = "threw"

\* The first audio payload among the parts, 0 when there is none.
RECURSIVE FirstPayload(_, _)
FirstPayload(l, i) ==
    IF i > Len(l) THEN 0
    ELSE IF l[i].inlineData /\ l[i].data \in Payloads THEN i ELSE FirstPayload(l, i + 1)

\* C13: getTeacherSpeech returns the first audio payload among the parts of
\* the first candidate, whatever its position, and fails exactly when no part
\* carries an audio payload.
C13_SpeechFirstPayload ==
    (call.fn = "speech" /\ ret # NoRet /\ call.ok) =>
       LET i == IF call.body.parts THEN FirstPayload(call.body.list, 1) ELSE 0 IN
       IF i = 0 THEN ret.kind = "threw"
       ELSE ret.kind = "returned" /\ ret.value = call.body.list[i].data

\* C14: getTeacherDiagram returns the first inline image payload among the
\* parts of the first candidate as a data URL, and fails with an error when
\* the response carries no inline image payload, also without candidates or
\* parts.
C14_DiagramFirstPayload ==
    (call.fn = "diagram" /\ ret # NoRet /\ call.ok) =>
       LET i == IF call.body.parts THEN FirstPayload(call.body.list, 1) ELSE 0 IN
       IF i = 0 THEN ret.kind = "threw"
       ELSE ret.kind = "returned" /\ ret.value = <<DataUrlPrefix, call.body.list[i].data>>

\* C17: with the API credential absent, a remote call fails with a
\* configuration error before anything is sent: no request leaves with an empty
\* credential.
C17_AbsentKeyIsConfigurationError ==
    (call.fn \in {"explanation", "speech", "diagram"} /\ ret # NoRet /\ call.key = KeyAbsent) =>
       /\ ret.kind = "threw"
       /\ ~ret.sent
       /\ ret.error = "ApiKeyError"
\* The input is a whole number of frames of 16-bit samples.
ValidLength(bytes, c) == Len(bytes) % (2 * c) = 0

\* The signed 16-bit integer whose low byte is lo and whose high byte is hi.
LittleEndianInt16(lo, hi) ==
    IF hi >= 128 THEN lo + 256 * hi - 65536 ELSE lo + 256 * hi

C16_InvalidLengthFails ==
    (call.fn = "decode" /\ ret # NoRet /\ ~ValidLength(call.bytes, call.numChannels)) =>
       ret.kind = "threw"
\* C18: the wallet balance is never negative; an art request made while the
\* balance is below the unit price is rejected with InsufficientBalanceError,
\* issues no remote call and leaves the balance alone; the balance goes down
\* by one unit price on a successful result and on no other step.
C18_WalletInvariant ==
    [][ /\ wallet.balance >= 0 /\ wallet'.balance >= 0
        /\ (wallet.balance < UnitPrice /\ lastOp' \in {"artRejected", "artInvalid", "artRequested"}) =>
              /\ wallet'.error = InsufficientBalanceError
              /\ wallet'.calls = wallet.calls
              /\ ~wallet'.pending
              /\ wallet'.balance = wallet.balance
        /\ lastOp' = "artRequested" => wallet.balance >= UnitPrice
        /\ lastOp' = "artSucceeded" =>
              /\ wallet'.balance + UnitPrice = wallet.balance
              /\ wallet'.arts = wallet.arts + 1
        /\ lastOp' # "artSucceeded" =>
              /\ wallet'.balance = wallet.balance
              /\ wallet'.arts = wallet.arts
      ]_vars

\* A request rejected for its balance after an earlier result was paid for.
C18_Witness ==
    /\ lastOp = "artRejected"
    /\ wallet.error = InsufficientBalanceError
    /\ wallet.arts >= 1
    /\ wallet.balance < UnitPrice
\* C19: right after handleAsk has passed validation, no audio source is
\* active and isPlaying is false, in both apps.
C19_AskStopsNarration ==
    lastOp = "askAccepted" => (ActiveSources = {} /\ ~isPlaying)

\* C20: while the stored result is absent no audio source is active, and a
\* source starts playing only for a speech request made for the result that
\* is stored when its response arrives.
C20_NoNarrationForDiscarded ==
    [][ /\ result' = Null => ActiveSources' = {}
        /\ \A s \in SourceIds :
              (src[s] # "playing" /\ src'[s] = "playing") =>
                 \E r \in speechReqs : r.id = s /\ r.res = result /\ result # Null
      ]_vars
\* C21: whatever is audible is the source held in the reference and the
\* playing flag is set for it, so the stop control halts it; and the flag is
\* set only while a source is audible or the event of its end is still to be
\* handled.  An end event of an earlier source therefore never clears the flag
\* or the reference of a later one.
C21_FlagAgreesWithHandle ==
    /\ ActiveSources # {} => (isPlaying /\ ActiveSources = {sourceRef})
    /\ (isPlaying /\ endedQ = {}) => ActiveSources # {}

\* C22: in Class 5 Guru a diagram request is issued only by the step in which
\* an explanation call succeeds, for the result that step stores; the failure
\* of an explanation call issues none; the Teacher app issues none at all.
C22_DiagramAfterExplanation ==
    [][ /\ diagReqs' # diagReqs /\ ~(diagReqs' \subseteq diagReqs) =>
              /\ app = Guru
              /\ lastOp' = "explanationOk"
              /\ result' # Null
              /\ result' \in explReqs
              /\ diagReqs' = diagReqs \cup {result'}
        /\ lastOp' = "explanationFailed" => diagReqs' = diagReqs
        /\ (app = Guru /\ lastOp' = "explanationOk") => result' \in diagReqs'
      ]_vars

C22_Witness ==
    /\ app = Guru
    /\ lastOp = "explanationOk"
    /\ result = 2
    /\ diagReqs = {2}

\* C23: in Class 5 Guru a stored diagram is the one generated from the stored
\* result.
C23_DiagramBelongsToResult ==
    (app = Guru /\ diagram # Null) => (result # Null /\ diagram = result)

\* C24: a submission rejected by validation changes the error message and
\* nothing else of the screen.
C24_RejectionChangesOnlyError ==
    [][ lastOp' = "askRejected" =>
          /\ error' = ValidationMsg
          /\ UNCHANGED <<inputText, image, loading, audioLoading, isPlaying,
                         result, diagram, sourceRef, src, endedQ, explReqs,
                         diagReqs, speechReqs, thrown>>
      ]_vars

\* A rejected submission while a narration is playing.
C24_Witness ==
    /\ lastOp = "askRejected"
    /\ error = ValidationMsg
    /\ isPlaying
    /\ ActiveSources # {}
    /\ result # Null
====
